---- MODULE Spec2Model ----
(***************************************************************************)
(* Model of the retrieval-augmented generation pipeline of the Autonomous  *)
(* QA Agent backend: the chunker (utils/chunking.py), the vector store     *)
(* (services/vector_store.py), the two generators                          *)
(* (services/test_case_generator.py, services/script_generator.py) and the *)
(* request handlers of main.py that drive them.                            *)
(***************************************************************************)
EXTENDS Integers, Sequences, FiniteSets, TLC

(***************************************************************************)
(* Bounds of the model.                                                    *)
(***************************************************************************)
MaxTextLen == 5
MaxPlainTextLen == 8
MaxChunkSize == 7
MaxUploads == 2
MaxNumCases == 3
MaxBacklog == 1

(***************************************************************************)
(* Characters.  A text is a sequence of one-character strings.             *)
(***************************************************************************)
Alphabet == {"a", ".", " ", "\n"}

Whitespace == {" ", "\n"}

Min(a, b) == IF a < b THEN a ELSE b

Max(a, b) == IF a > b THEN a ELSE b

TextsOfLen(n) == [1..n -> Alphabet]

\* The longer texts are made of a letter, the full stop and the space alone.
PlainAlphabet == {"a", ".", " "}

Texts ==
    UNION {TextsOfLen(n) : n \in 0..MaxTextLen}
    \cup UNION {[1..n -> PlainAlphabet] :
                  n \in (MaxTextLen + 1)..MaxPlainTextLen}

(***************************************************************************)
(* Python sequence primitives used by chunk_text.                          *)
(***************************************************************************)
\* A slice bound as Python resolves it: a negative bound counts from the
\* end, and both ends are clamped to 0..len.
SliceIndex(n, i) == IF i < 0 THEN Max(i + n, 0) ELSE Min(i, n)

\* s[i:j]
Slice(s, i, j) == SubSeq(s, SliceIndex(Len(s), i) + 1, SliceIndex(Len(s), j))

\* w.rfind(d): the highest 0-based index at which d occurs in w, or -1.
RFind(w, d) ==
    LET hits == {k \in 0..(Len(w) - Len(d)) : SubSeq(w, k + 1, k + Len(d)) = d}
    IN  IF hits = {} THEN -1 ELSE CHOOSE k \in hits : \A h \in hits : h <= k

\* s.strip()
Strip(s) ==
    LET keep == {k \in 1..Len(s) : s[k] \notin Whitespace}
    IN  IF keep = {} THEN <<>>
        ELSE SubSeq(s, CHOOSE k \in keep : \A h \in keep : k <= h,
                       CHOOSE k \in keep : \A h \in keep : h <= k)

\* The sentence delimiters, in the order the loop tries them.
Delimiters == << <<".", " ">>, <<".", "\n">>, <<"!", "\n">>, <<"?", "\n">> >>

\* The window end chosen by one pass of the scan loop started at st.
WindowEnd(t, cs, st) ==
    LET end0 == st + cs
        w == Slice(t, st, end0)
        found == {d \in 1..Len(Delimiters) : RFind(w, Delimiters[d]) # -1}
    IN  IF end0 < Len(t) /\ found # {}
        THEN LET d == CHOOSE x \in found : \A y \in found : x <= y
             IN  st + RFind(w, Delimiters[d]) + Len(Delimiters[d])
        ELSE end0

\* chunk_text as build_from_documents calls it: the chunks returned, the loop
\* run from start position st with the chunks acc collected so far.
RECURSIVE ChunkLoop(_, _, _, _, _)
ChunkLoop(t, cs, ov, st, acc) ==
    IF st >= Len(t) THEN acc
    ELSE LET end == WindowEnd(t, cs, st)
             chunk == Strip(Slice(t, st, end))
         IN  ChunkLoop(t, cs, ov, end - ov,
                       IF chunk # <<>> THEN Append(acc, chunk) ELSE acc)

ChunkText(t, cs, ov) ==
    IF Len(t) <= cs THEN <<t>> ELSE ChunkLoop(t, cs, ov, 0, <<>>)

(***************************************************************************)
(* Settings (config.py).  CHUNK_SIZE and CHUNK_OVERLAP are read from the   *)
(* environment; the model runs with sizes that fit its few-token documents.*)
(***************************************************************************)
Settings == [CHUNK_SIZE |-> 4, CHUNK_OVERLAP |-> 1]

(***************************************************************************)
(* Parsed documents, as DocumentParser hands them to the build.  A content *)
(* is a sequence of tokens (a word counts as one character of the text).   *)
(***************************************************************************)
NotesDoc == [source |-> "notes.txt", type |-> "txt",
             content |-> <<"a", " ", "a">>]

GuideDoc == [source |-> "guide.md", type |-> "md",
             content |-> <<"Input", " ", "a">>]

PageDoc == [source |-> "page.html", type |-> "html",
            content |-> <<"form", ".", " ", "button", "a">>]

\* The order in which build_knowledge_base lists the files: the support
\* documents, then the HTML files.
FileOrder == <<NotesDoc, GuideDoc, PageDoc>>

Files == {FileOrder[i].source : i \in 1..Len(FileOrder)}

VARIABLES text, chunk_size, overlap, start, chunks, visited, ct_pc,
          uploaded, exists, entries, tasks, backlog,
          call, ret, call_pc

chunkVars == <<text, chunk_size, overlap, start, chunks, visited, ct_pc>>

svcVars == <<uploaded, exists, entries, tasks, backlog>>

\* A single call of one function: its arguments, what it returned, and how
\* far it has got.
unitVars == <<call, ret, call_pc>>

vars == <<chunkVars, svcVars, unitVars>>

(***************************************************************************)
(* The backing collection (chromadb), as VectorStore uses it.  entries maps*)
(* an id i (for "doc_<i>") to the stored chunk and its metadata; exists is *)
(* false between delete_collection and create_collection.                  *)
(***************************************************************************)
NoEntries == [i \in {} |-> 0]

\* collection.count()
CollectionCount(ents) == Cardinality(DOMAIN ents)

\* VectorStore.is_initialized and VectorStore.get_document_count
IsInitialized(ents) == CollectionCount(ents) > 0

GetDocumentCount(ents) == CollectionCount(ents)

\* What collection.add does with ids the collection already holds: the
\* backend either refuses the batch or keeps the stored entry and drops the
\* new one, depending on its version.
AddModes == {"reject", "ignore"}

\* collection.add(ids, embeddings, documents, metadatas)
CollectionAdd(ents, ids, documents, metadatas, mode) ==
    LET n == Len(ids)
        clash == {j \in 1..n : ids[j] \in DOMAIN ents}
        fresh == {ids[j] : j \in (1..n) \ clash}
        pos(i) == CHOOSE j \in 1..n : ids[j] = i
    IN  IF clash # {} /\ mode = "reject"
        THEN [raised |-> TRUE, entries |-> ents]
        ELSE [raised |-> FALSE,
              entries |-> [i \in DOMAIN ents \cup fresh |->
                             IF i \in DOMAIN ents THEN ents[i]
                             ELSE [document |-> documents[pos(i)],
                                   metadata |-> metadatas[pos(i)]]]]

\* The orders in which a similarity search may rank the stored entries (the
\* embedding distance is opaque).
Rankings(ents) ==
    {r \in [1..Cardinality(DOMAIN ents) -> DOMAIN ents] :
        \A a, b \in DOMAIN r : a # b => r[a] # r[b]}

\* VectorStore.query: the k nearest entries in ranking order, formatted.
FormatResults(ents, ranking, k) ==
    [j \in 1..Min(k, Len(ranking)) |->
        [content |-> ents[ranking[j]].document,
         metadata |-> ents[ranking[j]].metadata,
         distance |-> j]]

(***************************************************************************)
(* VectorStore.build_from_documents                                        *)
(***************************************************************************)
\* Lines 36-52: the chunks of one document with their metadata.
DocumentChunks(doc) ==
    LET cks == ChunkText(doc.content, Settings.CHUNK_SIZE,
                         Settings.CHUNK_OVERLAP)
    IN  [i \in 1..Len(cks) |->
            [chunk |-> cks[i],
             metadata |-> [source |-> doc.source, type |-> doc.type,
                           chunk_index |-> i - 1,
                           total_chunks |-> Len(cks)]]]

RECURSIVE AllChunks(_)
AllChunks(documents) ==
    IF documents = <<>> THEN <<>>
    ELSE DocumentChunks(Head(documents)) \o AllChunks(Tail(documents))

\* Line 58: ids = [f"doc_{i}" for i in range(len(all_chunks))]
RestartingIds(ents, n) == [j \in 1..n |-> j - 1]

BuildIds(ents, n) == RestartingIds(ents, n)

(***************************************************************************)
(* JSON values as json.loads returns them, tagged with their Python type:  *)
(* str (a sequence of pieces, so that an f-string is a concatenation),     *)
(* num, null, list, map (a record of the keys present), and garbage for    *)
(* text that is not JSON.                                                  *)
(***************************************************************************)
Str(s) == [t |-> "str", v |-> <<s>>]

StrCat(pieces) == [t |-> "str", v |-> pieces]

Num(n) == [t |-> "num", v |-> n]

Null == [t |-> "null", v |-> 0]

List(xs) == [t |-> "list", v |-> xs]

Map(r) == [t |-> "map", v |-> r]

Garbage == [t |-> "garbage", v |-> 0]

\* dict.get(key, default)
Get(d, key, default) == IF key \in DOMAIN d THEN d[key] ELSE default

\* f"TC-{index:03d}"
TcIds == <<"TC-001", "TC-002", "TC-003", "TC-004", "TC-005",
           "TC-006", "TC-007", "TC-008", "TC-009">>

TcId(index) == Str(TcIds[index])

Digits == <<"1", "2", "3", "4", "5", "6", "7", "8", "9">>

(***************************************************************************)
(* TestCaseGenerator                                                       *)
(***************************************************************************)
\* Lines 36-45: "[Document i - source]\ncontent\n" per document, joined by
\* newlines.
RECURSIVE ContextFrom(_, _)
ContextFrom(context_docs, i) ==
    IF i > Len(context_docs) THEN <<>>
    ELSE (IF i > 1 THEN <<"\n">> ELSE <<>>)
         \o <<"[Document ", Digits[i], " - ",
              context_docs[i].metadata.source, "]", "\n">>
         \o context_docs[i].content \o <<"\n">>
         \o ContextFrom(context_docs, i + 1)

BuildContextString(context_docs) == ContextFrom(context_docs, 1)

\* Lines 131-143.  tc is the dict of one parsed entry.
DefaultSteps == List(<<Str("Execute test")>>)

DefaultGrounding == List(<<Str("documentation")>>)

\* A validation that numbers every record itself, whatever test_id it has.
ValidateTestCaseRenumbering(tc, index) ==
    [test_id |-> TcId(index),
     feature |-> Get(tc, "feature", Str("Unknown Feature")),
     test_scenario |-> Get(tc, "test_scenario", Str("Test scenario")),
     test_type |-> Get(tc, "test_type", Str("positive")),
     preconditions |-> Get(tc, "preconditions", Str("None")),
     test_steps |-> IF Get(tc, "test_steps", Null).t = "list"
                    THEN Get(tc, "test_steps", DefaultSteps)
                    ELSE DefaultSteps,
     expected_result |-> Get(tc, "expected_result", Str("Test passes")),
     grounded_in |-> IF Get(tc, "grounded_in", Null).t = "list"
                     THEN Get(tc, "grounded_in", DefaultGrounding)
                     ELSE DefaultGrounding,
     priority |-> Get(tc, "priority", Str("medium"))]

ValidateTestCase(tc, index) ==
    [test_id |-> Get(tc, "test_id", TcId(index)),
     feature |-> Get(tc, "feature", Str("Unknown Feature")),
     test_scenario |-> Get(tc, "test_scenario", Str("Test scenario")),
     test_type |-> Get(tc, "test_type", Str("positive")),
     preconditions |-> Get(tc, "preconditions", Str("None")),
     test_steps |-> IF Get(tc, "test_steps", Null).t = "list"
                    THEN Get(tc, "test_steps", DefaultSteps)
                    ELSE DefaultSteps,
     expected_result |-> Get(tc, "expected_result", Str("Test passes")),
     grounded_in |-> IF Get(tc, "grounded_in", Null).t = "list"
                     THEN Get(tc, "grounded_in", DefaultGrounding)
                     ELSE DefaultGrounding,
     priority |-> Get(tc, "priority", Str("medium"))]

\* Lines 179-183: the keywords, and which of them occur in a token once it
\* is lower-cased.
Keywords == <<"button", "form", "input", "field", "cart", "checkout",
              "payment", "discount", "shipping">>

Capitalized == [button |-> "Button", form |-> "Form", input |-> "Input",
                field |-> "Field", cart |-> "Cart", checkout |-> "Checkout",
                payment |-> "Payment", discount |-> "Discount",
                shipping |-> "Shipping"]

KeywordsIn(token) ==
    CASE token = "Input" -> {"input"}
      [] token = "form" -> {"form"}
      [] token = "button" -> {"button"}
      [] token = "cart checkout" -> {"cart", "checkout"}
      [] OTHER -> {}

\* Lines 176-183: the features list before set() is applied.
MatchedFeatures(context) ==
    LET hit(k) == \E j \in 1..Len(context) : Keywords[k] \in KeywordsIn(context[j])
    IN  [j \in 1..Len(SelectSeq([k \in 1..Len(Keywords) |-> k], hit)) |->
            Capitalized[Keywords[SelectSeq([k \in 1..Len(Keywords) |-> k], hit)[j]]]]

\* Line 185: list(set(features)) may come out in any order (string hashing
\* is seeded per process).
SetOrders(features) ==
    LET S == {features[j] : j \in 1..Len(features)}
    IN  {o \in [1..Cardinality(S) -> S] :
            \A a, b \in DOMAIN o : a # b => o[a] # o[b]}

\* A count without the "or 3": nothing for a context without features.
FallbackCountNoDefault(num_cases, features) == Min(num_cases, Len(features))

\* Lines 152-153: how many fallback records are produced,
\* min(num_cases, len(features) or 3).
FallbackCount(num_cases, features) ==
    Min(num_cases, IF Len(features) # 0 THEN Len(features) ELSE 3)

\* Records whose type changes with every record.
CreateFallbackTestCasesAlternating(features, num_cases) ==
    [j \in 1..FallbackCount(num_cases, features) |->
        LET i == j - 1
            feature == IF i < Len(features) THEN features[i + 1]
                       ELSE "General Functionality"
        IN  [test_id |-> TcId(i + 1),
             feature |-> Str(feature),
             test_scenario |-> StrCat(<<"Test ", feature, " functionality">>),
             test_type |-> IF i % 2 # 1 THEN Str("positive")
                           ELSE Str("negative"),
             preconditions |-> Str("Application is loaded"),
             test_steps |-> List(<<Str("Navigate to the feature"),
                                   Str("Perform action"),
                                   Str("Verify result")>>),
             expected_result |-> Str("Feature works as expected"),
             grounded_in |-> List(<<Str("documentation")>>),
             priority |-> Str("medium")]]

\* Lines 145-171.  features is _extract_features_from_context(context).
CreateFallbackTestCases(features, num_cases) ==
    [j \in 1..FallbackCount(num_cases, features) |->
        LET i == j - 1
            feature == IF i < Len(features) THEN features[i + 1]
                       ELSE "General Functionality"
        IN  [test_id |-> TcId(i + 1),
             feature |-> Str(feature),
             test_scenario |-> StrCat(<<"Test ", feature, " functionality">>),
             test_type |-> IF i % 3 # 1 THEN Str("positive")
                           ELSE Str("negative"),
             preconditions |-> Str("Application is loaded"),
             test_steps |-> List(<<Str("Navigate to the feature"),
                                   Str("Perform action"),
                                   Str("Verify result")>>),
             expected_result |-> Str("Feature works as expected"),
             grounded_in |-> List(<<Str("documentation")>>),
             priority |-> Str("medium")]]

(***************************************************************************)
(* The generation call and the clean-up of its text.  An answer is a raise,*)
(* a message without content, or a text: the tokens before the payload     *)
(* (pre), the payload (body) and the tokens after it (post).               *)
(***************************************************************************)
\* The code-fence markers: three backquotes, alone or followed by a language.
Fence == "<fence>"

JsonTag == "<fence>json"

PythonTag == "<fence>python"

Raise == [kind |-> "raise", pre |-> <<>>, body |-> Garbage, post |-> <<>>]

NoContent == [kind |-> "no_content", pre |-> <<>>, body |-> Garbage,
              post |-> <<>>]

Text(pre, body, post) ==
    [kind |-> "text", pre |-> pre, body |-> body, post |-> post]

\* s.lstrip() and s.rstrip() on token sequences
RECURSIVE LStrip(_)
LStrip(s) ==
    IF s # <<>> /\ Head(s) \in Whitespace THEN LStrip(Tail(s)) ELSE s

RECURSIVE RStrip(_)
RStrip(s) ==
    IF s # <<>> /\ s[Len(s)] \in Whitespace
    THEN RStrip(SubSeq(s, 1, Len(s) - 1)) ELSE s

\* re.sub(tag + r'\s*', '', s), tag being JsonTag or PythonTag
RECURSIVE RemoveTag(_, _)
RemoveTag(s, tag) ==
    IF s = <<>> THEN <<>>
    ELSE IF Head(s) = tag THEN RemoveTag(LStrip(Tail(s)), tag)
    ELSE <<Head(s)>> \o RemoveTag(Tail(s), tag)

\* re.sub(fence + r'\s*$', '', s)
RemoveClosingFence(s) ==
    LET r == RStrip(s)
    IN  IF r # <<>> /\ r[Len(r)] = Fence THEN SubSeq(r, 1, Len(r) - 1)
        ELSE s

\* Lines 97-102 (test cases) and 141-146 (scripts): strip, remove the tags,
\* remove a closing fence, strip.  The payload is never whitespace, so the
\* text before it is stripped on the left and the text after it on the right.
CleanPre(pre, tag) == LStrip(RemoveTag(LStrip(pre), tag))

CleanPost(post, tag) ==
    RStrip(RemoveClosingFence(RemoveTag(RStrip(post), tag)))

\* json.loads: the value, when only whitespace surrounds a JSON payload.
Parses(pre, body, post) ==
    /\ body.t # "garbage"
    /\ \A j \in 1..Len(pre) : pre[j] \in Whitespace
    /\ \A j \in 1..Len(post) : post[j] \in Whitespace

\* Lines 109-110: a value that is not a list is wrapped in one.
AsList(value) == IF value.t = "list" THEN value.v ELSE <<value>>

\* Lines 87-118: the body of the try.  exc is the exception that left it
\* ("" when it returned value).
TryGenerateTestCases(llm, num_cases) ==
    IF llm.kind = "raise" THEN [exc |-> "APIError", value |-> <<>>]
    ELSE IF llm.kind = "no_content"
    THEN [exc |-> "AttributeError", value |-> <<>>]
    ELSE LET pre == CleanPre(llm.pre, JsonTag)
             post == CleanPost(llm.post, JsonTag)
         IN  IF ~Parses(pre, llm.body, post)
             THEN [exc |-> "JSONDecodeError", value |-> <<>>]
             ELSE LET first == Slice(AsList(llm.body), 0, num_cases)
                  IN  IF \E j \in 1..Len(first) : first[j].t # "map"
                      THEN [exc |-> "AttributeError", value |-> <<>>]
                      ELSE [exc |-> "",
                            value |-> [j \in 1..Len(first) |->
                                         ValidateTestCase(first[j].v, j)]]

\* A handler for the errors of the call alone: any other exception leaves
\* the generator.
ExceptApiError(exc, fallback) ==
    IF exc = "APIError" THEN [exc |-> "", value |-> fallback]
    ELSE [exc |-> exc, value |-> <<>>]

\* except Exception: whatever was raised, the fallback is returned.
ExceptException(exc, fallback) == [exc |-> "", value |-> fallback]

\* Lines 86-129.  features is what _extract_features_from_context returns
\* for the context.
GenerateWithLLM(llm, features, num_cases) ==
    LET r == TryGenerateTestCases(llm, num_cases)
        fallback == CreateFallbackTestCases(features, num_cases)
    IN  IF r.exc = "" THEN r
        ELSE IF r.exc = "JSONDecodeError"
        THEN [exc |-> "", value |-> fallback]
        ELSE ExceptException(r.exc, fallback)

(***************************************************************************)
(* The answers the generation call gives in the model.                     *)
(***************************************************************************)
FullEntry ==
    Map([test_id |-> Str("TC-LLM"), feature |-> Str("Login"),
         test_scenario |-> Str("Valid login"), test_type |-> Str("edge"),
         preconditions |-> Str("User exists"),
         test_steps |-> List(<<Str("Open page")>>),
         expected_result |-> Str("Logged in"),
         grounded_in |-> List(<<Str("guide.md")>>),
         priority |-> Str("high")])

EmptyEntry == Map([x \in {} |-> 0])

BadEntry ==
    Map([test_id |-> Num(7), feature |-> Null, test_type |-> Str("smoke"),
         test_steps |-> Str("click"), grounded_in |-> Null,
         priority |-> Num(1)])

JsonEntries == {FullEntry, EmptyEntry, BadEntry, Num(1)}

MaxParsedEntries == 2

JsonBodies ==
    {Garbage, Num(1), Null, FullEntry}
    \cup {List(xs) : xs \in UNION {[1..n -> JsonEntries] : n \in 0..MaxParsedEntries}}

Fences(tag) ==
    {<< <<>>, <<>> >>,
     << <<tag, "\n">>, <<"\n", Fence>> >>,
     << <<Fence, "\n">>, <<"\n", Fence>> >>}

TestCaseAnswers ==
    {Raise, NoContent}
    \cup {Text(f[1], b, f[2]) : f \in Fences(JsonTag), b \in JsonBodies}

(***************************************************************************)
(* ScriptGenerator.  A script is a sequence of tokens (pieces of text).    *)
(***************************************************************************)
\* The key formed with the name before the id.
SelectorKeyNameFirst(e) ==
    IF e.name # "" THEN <<"[name='", e.name, "']">>
    ELSE IF e.id # "" THEN <<"#", e.id>>
    ELSE IF e.tag # "input" /\ e.text # <<>>
    THEN <<e.tag, ":contains('">> \o Slice(e.text, 0, 30) \o <<"')">>
    ELSE <<>>

\* Lines 43-72.  An element is [tag, id, name, text]; "" stands for an
\* attribute that is absent.  The table is a sequence of [key, info] in
\* insertion order; a key is the sequence of the pieces of its string.
SelectorKey(e) ==
    IF e.id # "" THEN <<"#", e.id>>
    ELSE IF e.name # "" THEN <<"[name='", e.name, "']">>
    ELSE IF e.tag # "input" /\ e.text # <<>>
    THEN <<e.tag, ":contains('">> \o Slice(e.text, 0, 30) \o <<"')">>
    ELSE <<>>

\* A table that keeps the first entry stored under a key.
DictSetFirstWins(d, key, info) ==
    IF \E j \in 1..Len(d) : d[j].key = key
    THEN d
    ELSE Append(d, [key |-> key, info |-> info])

\* selectors[key] = info
DictSet(d, key, info) ==
    IF \E j \in 1..Len(d) : d[j].key = key
    THEN [j \in 1..Len(d) |->
            IF d[j].key = key THEN [key |-> key, info |-> info] ELSE d[j]]
    ELSE Append(d, [key |-> key, info |-> info])

RECURSIVE SelectorsFrom(_, _)
SelectorsFrom(elements, d) ==
    IF elements = <<>> THEN d
    ELSE LET e == Head(elements)
             info == [e EXCEPT !.text = IF e.tag = "input" THEN <<>> ELSE @]
         IN  SelectorsFrom(Tail(elements),
                 IF SelectorKey(e) = <<>> THEN d
                 ELSE DictSet(d, SelectorKey(e), info))

ExtractSelectors(html_content) == SelectorsFrom(html_content, <<>>)

\* Lines 74-79: "[source]\ncontent" per document, joined by blank lines.
RECURSIVE ScriptContextFrom(_, _)
ScriptContextFrom(context_docs, i) ==
    IF i > Len(context_docs) THEN <<>>
    ELSE (IF i > 1 THEN <<"\n", "\n">> ELSE <<>>)
         \o <<"[", context_docs[i].metadata.source, "]", "\n">>
         \o context_docs[i].content
         \o ScriptContextFrom(context_docs, i + 1)

\* The import lines put after the script.
AppendRequiredImports(script, browser) ==
    script \o <<"from selenium import webdriver", "\n",
                "from selenium.webdriver.common.by import By", "\n",
                "from selenium.webdriver.", browser, ".service import Service",
                "\n", "import time", "\n", "\n">>

\* Lines 174-185
AddRequiredImports(script, browser) ==
    <<"from selenium import webdriver", "\n",
      "from selenium.webdriver.common.by import By", "\n",
      "from selenium.webdriver.", browser, ".service import Service", "\n",
      "import time", "\n", "\n">> \o script

\* 'selenium' in token.lower()
HasSeleniumMarker(token) ==
    token \in {"from selenium import webdriver",
               "from Selenium import webdriver",
               "from selenium.webdriver.common.by import By",
               "from selenium.webdriver."}

ContainsSelenium(script) ==
    \E j \in 1..Len(script) : HasSeleniumMarker(script[j])

\* Lines 229-232: the placeholder of each declared step.
RECURSIVE FallbackSteps(_, _)
FallbackSteps(test_steps, i) ==
    IF i > Len(test_steps) THEN <<>>
    ELSE <<"# Step ", Digits[i], ": ", test_steps[i], "\n",
           "# TODO: Implement step", "\n", "time.sleep(1)", "\n", "\n">>
         \o FallbackSteps(test_steps, i + 1)

\* The skeleton without the loop of lines 229-232.
GenerateFallbackScriptNoSteps(test_case, browser) ==
    <<"Selenium Test Script", "Test ID: ", test_case.test_id,
      "Feature: ", test_case.feature, "Scenario: ", test_case.test_scenario,
      "\n", "from selenium import webdriver", "\n",
      "from selenium.webdriver.", browser, ".service import Service", "\n",
      "def setup_method(self):", "webdriver.", browser, "\n",
      "def test(self):", "Expected: ", test_case.expected_result, "\n",
      "# Test steps", "\n">>
    \o <<"# Assertion", "\n", "assert True, ", test_case.expected_result, "\n",
         "def teardown_method(self):", "self.driver.quit()", "\n",
         "if __name__ == '__main__':", "\n">>

\* Lines 187-258
GenerateFallbackScript(test_case, browser) ==
    <<"Selenium Test Script", "Test ID: ", test_case.test_id,
      "Feature: ", test_case.feature, "Scenario: ", test_case.test_scenario,
      "\n", "from selenium import webdriver", "\n",
      "from selenium.webdriver.", browser, ".service import Service", "\n",
      "def setup_method(self):", "webdriver.", browser, "\n",
      "def test(self):", "Expected: ", test_case.expected_result, "\n",
      "# Test steps", "\n">>
    \o FallbackSteps(test_case.test_steps, 1)
    \o <<"# Assertion", "\n", "assert True, ", test_case.expected_result, "\n",
         "def teardown_method(self):", "self.driver.quit()", "\n",
         "if __name__ == '__main__':", "\n">>

\* Lines 130-152: the body of the try.
TryGenerateScript(llm, browser) ==
    IF llm.kind = "raise" THEN [exc |-> "APIError", value |-> <<>>]
    ELSE IF llm.kind = "no_content"
    THEN [exc |-> "AttributeError", value |-> <<>>]
    ELSE LET script == CleanPre(llm.pre, PythonTag) \o llm.body
                       \o CleanPost(llm.post, PythonTag)
         IN  [exc |-> "",
              value |-> IF ~ContainsSelenium(script)
                        THEN AddRequiredImports(script, browser)
                        ELSE script]

\* Lines 130-156
ScriptWithLLM(llm, test_case, browser) ==
    LET r == TryGenerateScript(llm, browser)
    IN  IF r.exc = "" THEN r
        ELSE ExceptException(r.exc, GenerateFallbackScript(test_case, browser))

\* s.replace("'", '"') and s.replace('"', "'") on the pieces of a key
DoubleQuoted(piece) ==
    CASE piece = "[name='" -> "[name=\""
      [] piece = "']" -> "\"]"
      [] piece = ":contains('" -> ":contains(\""
      [] piece = "')" -> "\")"
      [] OTHER -> piece

SingleQuoted(piece) ==
    CASE piece = "[name=\"" -> "[name='"
      [] piece = "\"]" -> "']"
      [] piece = ":contains(\"" -> ":contains('"
      [] piece = "\")" -> "')"
      [] OTHER -> piece

\* needle in script
Occurs(needle, script) ==
    \E k \in 0..(Len(script) - Len(needle)) :
        SubSeq(script, k + 1, k + Len(needle)) = needle

\* Lines 260-267
ExtractUsedSelectors(script, selectors) ==
    LET used(entry) ==
            \/ Occurs([j \in 1..Len(entry.key) |-> DoubleQuoted(entry.key[j])],
                      script)
            \/ Occurs([j \in 1..Len(entry.key) |-> SingleQuoted(entry.key[j])],
                      script)
        hits == SelectSeq(selectors, used)
    IN  [j \in 1..Len(hits) |-> hits[j].key]

\* Lines 269-290
GenerateExplanation(test_case, script) ==
    <<"This Selenium script automates the test case ", test_case.test_id,
      "Test Objective: ", test_case.test_scenario,
      "steps: ", Len(test_case.test_steps),
      "Verifies that ", test_case.expected_result>>

\* The requests of the model: the test case and markup sent to
\* /selenium-script/generate.
LoginCase == [test_id |-> "TC-001", feature |-> "Login",
              test_scenario |-> "Valid login", test_type |-> "positive",
              preconditions |-> "None",
              test_steps |-> <<"Open page", "Click submit">>,
              expected_result |-> "Logged in",
              grounded_in |-> <<"guide.md">>, priority |-> "high"]

NoStepsCase == [LoginCase EXCEPT !.test_id = "TC-002", !.test_steps = <<>>]

LoginPage == <<[tag |-> "input", id |-> "email", name |-> "", text |-> <<>>],
               [tag |-> "input", id |-> "", name |-> "pw", text |-> <<>>],
               [tag |-> "button", id |-> "", name |-> "",
                text |-> <<"Submit">>]>>

ScriptRequests ==
    {[test_case |-> c, html_content |-> h, browser |-> "chrome"] :
        c \in {LoginCase, NoStepsCase}, h \in {LoginPage, <<>>}}

ScriptBodies ==
    {<<"from selenium import webdriver", "\n", "find(", "#", "email", ")">>,
     <<"from Selenium import webdriver">>,
     <<"find(", "[name=\"", "pw", "\"]", ")">>}

ScriptAnswers ==
    {Raise, NoContent}
    \cup {Text(f[1], b, f[2]) : f \in Fences(PythonTag), b \in ScriptBodies}

(***************************************************************************)
(* Requests.  Every endpoint of main.py is an async def that never       *)
(* awaits, so the event loop runs a handler to completion before it starts *)
(* the next one.  tasks[s] is the handler in request slot s: its endpoint  *)
(* (op), its position (pc), its arguments and locals, and its response.    *)
(***************************************************************************)
Slots == {1, 2}

NoResponse == [status |-> 0, error |-> "", body |-> <<>>]

IdleTask == [op |-> "idle", pc |-> "idle", arg |-> <<>>,
             retrieval |-> "none", docs |-> <<>>,
             llm |-> <<>>, llm_calls |-> 0,
             ids |-> <<>>, all_chunks |-> <<>>,
             result |-> <<>>, resp |-> NoResponse]

InFlight(t) == t.pc \notin {"idle", "done"}

\* HTTPException(status_code=500, detail=str(e)) from a handler's except.
ServerError(t, error) ==
    [t EXCEPT !.pc = "done",
              !.resp = [status |-> 500, error |-> error, body |-> <<>>]]

Ok(t, body) ==
    [t EXCEPT !.pc = "done",
              !.resp = [status |-> 200, error |-> "", body |-> body]]

\* Handlers on a thread pool: a handler starts whatever the others do.
ThreadedDispatch(s) == TRUE

\* The event loop starts a handler only when it is running no other one.
CanDispatch(s) == \A o \in Slots \ {s} : tasks[o].pc = "idle"

FirstPc(op) ==
    CASE op = "build" -> "parse"
      [] op = "clear" -> "unlink"
      [] op = "testcases" -> "check"
      [] op = "script" -> "retrieve"

\* The arguments a request may carry.
Requests(op) ==
    CASE op = "testcases" ->
            {[query |-> "checkout discount", num_cases |-> n] :
                n \in -1..MaxNumCases}
      [] op = "script" -> ScriptRequests
      [] OTHER -> {<<>>}

Ops == {"build", "clear", "testcases", "script"}

ServiceInit ==
    /\ uploaded = {}
    /\ exists = TRUE
    /\ entries = NoEntries
    /\ tasks = [s \in Slots |-> IdleTask]
    /\ backlog = <<>>
    /\ text = <<>>
    /\ chunk_size = 2
    /\ overlap = 0
    /\ start = 0
    /\ chunks = <<>>
    /\ visited = {}
    /\ ct_pc = "done"
    /\ call = <<>>
    /\ ret = <<>>
    /\ call_pc = "none"

\* upload_support_documents / upload_html: one more file in the data
\* directories.
Upload ==
    /\ \A s \in Slots : tasks[s].pc = "idle"
    /\ Cardinality(uploaded) < MaxUploads
    /\ \E f \in Files \ uploaded : uploaded' = uploaded \cup {f}
    /\ UNCHANGED <<exists, entries, tasks, backlog, chunkVars, unitVars>>

\* A request reaches the server and waits for the event loop.
Arrive(op) ==
    /\ Len(backlog) < MaxBacklog
    /\ backlog' = Append(backlog, op)
    /\ UNCHANGED <<uploaded, exists, entries, tasks, chunkVars, unitVars>>

\* The event loop takes the first waiting request and starts its handler.
Dispatch(s, op) ==
    /\ backlog # <<>> /\ Head(backlog) = op
    /\ backlog' = Tail(backlog)
    /\ tasks[s].pc = "idle"
    /\ \A o \in Slots : o < s => tasks[o].pc # "idle"
    /\ CanDispatch(s)
    /\ \E arg \in Requests(op) :
          tasks' = [tasks EXCEPT ![s] =
                      [IdleTask EXCEPT !.op = op, !.pc = FirstPc(op),
                                       !.arg = arg]]
    /\ UNCHANGED <<uploaded, exists, entries, chunkVars, unitVars>>

\* The response is sent and the request is over.
Respond(s) ==
    /\ tasks[s].pc = "done"
    /\ tasks' = [tasks EXCEPT ![s] = IdleTask]
    /\ UNCHANGED <<uploaded, exists, entries, backlog, chunkVars, unitVars>>

(***************************************************************************)
(* build_knowledge_base                                                    *)
(***************************************************************************)
\* main.py lines 215-244: list and parse the uploaded files.
BuildParse(s) ==
    /\ tasks[s].op = "build" /\ tasks[s].pc = "parse"
    /\ tasks' = [tasks EXCEPT ![s] =
          IF uploaded = {}
          THEN ServerError(@, "400: No documents uploaded")
          ELSE [@ EXCEPT !.pc = "add",
                         !.arg = SelectSeq(FileOrder,
                                     LAMBDA d : d.source \in uploaded)]]
    /\ UNCHANGED <<uploaded, exists, entries, backlog, chunkVars, unitVars>>

\* vector_store.py lines 31-67 and main.py lines 246-261.
BuildAdd(s) ==
    /\ tasks[s].op = "build" /\ tasks[s].pc = "add"
    /\ LET all == AllChunks(tasks[s].arg)
           ids == BuildIds(entries, Len(all))
           t == [tasks[s] EXCEPT !.ids = ids, !.all_chunks = all]
       IN  IF ~exists
           THEN /\ tasks' = [tasks EXCEPT ![s] =
                                ServerError(t, "collection does not exist")]
                /\ UNCHANGED entries
           ELSE \E mode \in AddModes :
                  LET r == CollectionAdd(entries, ids,
                              [j \in 1..Len(all) |-> all[j].chunk],
                              [j \in 1..Len(all) |-> all[j].metadata], mode)
                  IN  /\ entries' = r.entries
                      /\ tasks' = [tasks EXCEPT ![s] =
                            IF r.raised
                            THEN ServerError(t, "duplicate ids")
                            ELSE Ok(t, [total_documents |-> Len(t.arg),
                                        total_chunks |-> Len(all)])]
    /\ UNCHANGED <<uploaded, exists, backlog, chunkVars, unitVars>>

(***************************************************************************)
(* clear_documents and VectorStore.reset                                   *)
(***************************************************************************)
\* main.py lines 370-373: the uploaded files are removed.
ClearUnlink(s) ==
    /\ tasks[s].op = "clear" /\ tasks[s].pc = "unlink"
    /\ uploaded' = {}
    /\ tasks' = [tasks EXCEPT ![s].pc = "delete"]
    /\ UNCHANGED <<exists, entries, backlog, chunkVars, unitVars>>

\* A deletion that leaves the stored entries behind.
KeepEntries(ents) == ents

\* The entries left once the collection has been deleted: none.
DropEntries(ents) == NoEntries

\* vector_store.py line 101: client.delete_collection(name)
ResetDelete(s) ==
    /\ tasks[s].op = "clear" /\ tasks[s].pc = "delete"
    /\ IF exists
       THEN /\ exists' = FALSE
            /\ entries' = DropEntries(entries)
            /\ tasks' = [tasks EXCEPT ![s].pc = "create"]
       ELSE /\ tasks' = [tasks EXCEPT ![s] =
                            ServerError(@, "collection does not exist")]
            /\ UNCHANGED <<exists, entries>>
    /\ UNCHANGED <<uploaded, backlog, chunkVars, unitVars>>

\* vector_store.py lines 102-105: client.create_collection(name, cosine)
ResetCreate(s) ==
    /\ tasks[s].op = "clear" /\ tasks[s].pc = "create"
    /\ IF exists
       THEN /\ tasks' = [tasks EXCEPT ![s] =
                            ServerError(@, "collection already exists")]
            /\ UNCHANGED <<exists, entries>>
       ELSE /\ exists' = TRUE
            /\ tasks' = [tasks EXCEPT ![s] = Ok(@, "cleared")]
            /\ UNCHANGED entries
    /\ UNCHANGED <<uploaded, backlog, chunkVars, unitVars>>

(***************************************************************************)
(* generate_test_cases (main.py) and TestCaseGenerator.generate_test_cases *)
(***************************************************************************)
\* main.py lines 270-275 and vector_store.py lines 91-93.  The
\* HTTPException(400) is raised inside the handler's try and caught by its
\* except Exception, which answers 500.
TestCasesCheck(s) ==
    /\ tasks[s].op = "testcases" /\ tasks[s].pc = "check"
    /\ tasks' = [tasks EXCEPT ![s] =
          IF ~exists THEN ServerError(@, "collection does not exist")
          ELSE IF ~IsInitialized(entries)
          THEN ServerError(@, "400: Knowledge base not initialized")
          ELSE [@ EXCEPT !.pc = "retrieve"]]
    /\ UNCHANGED <<uploaded, exists, entries, backlog, chunkVars, unitVars>>

\* A retrieval whose error is swallowed: generation goes on without context.
RetrievalSwallowed(t, error) ==
    [t EXCEPT !.pc = "invoke", !.retrieval = "raised", !.docs = <<>>]

\* retrieve_context raised: generate_test_cases line 26 and generate_script
\* line 31 are outside any try, so the request fails with the error.
RetrievalFailed(t, error) ==
    [ServerError(t, error) EXCEPT !.retrieval = "raised"]

\* The number of results each generator asks for.
TopK(op) == IF op = "testcases" THEN 5 ELSE 3

\* rag_service.py lines 9-12 and vector_store.py lines 69-89.
Retrieve(s) ==
    /\ tasks[s].op \in {"testcases", "script"} /\ tasks[s].pc = "retrieve"
    /\ \/ tasks' = [tasks EXCEPT ![s] =
                      RetrievalFailed(@, IF exists THEN "StorageUnavailable"
                                         ELSE "collection does not exist")]
       \/ /\ exists
          /\ \E ranking \in Rankings(entries) :
               tasks' = [tasks EXCEPT ![s] =
                  [@ EXCEPT !.pc = "invoke", !.retrieval = "ok",
                            !.docs = FormatResults(entries, ranking,
                                                   TopK(tasks[s].op))]]
    /\ UNCHANGED <<uploaded, exists, entries, backlog, chunkVars, unitVars>>

\* A call that is sent again after a first attempt.
InvokeGeneratorRetrying(s) ==
    /\ tasks[s].op \in {"testcases", "script"} /\ tasks[s].pc = "invoke"
    /\ tasks' = [tasks EXCEPT ![s] =
                    [@ EXCEPT !.pc = "await", !.llm_calls = @ + 2]]
    /\ UNCHANGED <<uploaded, exists, entries, backlog, chunkVars, unitVars>>

\* test_case_generator.py lines 87-95 and script_generator.py lines 131-139:
\* the request is sent to the generation service.
InvokeGenerator(s) ==
    /\ tasks[s].op \in {"testcases", "script"} /\ tasks[s].pc = "invoke"
    /\ tasks' = [tasks EXCEPT ![s] =
                    [@ EXCEPT !.pc = "await", !.llm_calls = @ + 1]]
    /\ UNCHANGED <<uploaded, exists, entries, backlog, chunkVars, unitVars>>

\* test_case_generator.py lines 95-129 and main.py lines 278-293: the answer
\* arrives and the handler finishes.
TestCasesAnswer(s) ==
    /\ tasks[s].op = "testcases" /\ tasks[s].pc = "await"
    /\ \E llm \in TestCaseAnswers,
          features \in SetOrders(MatchedFeatures(
                                   BuildContextString(tasks[s].docs))) :
         LET r == GenerateWithLLM(llm, Slice(features, 0, 10),
                                  tasks[s].arg.num_cases)
             t == [tasks[s] EXCEPT !.llm = llm, !.result = r.value]
         IN  tasks' = [tasks EXCEPT ![s] =
                IF r.exc # "" THEN ServerError(t, r.exc)
                ELSE Ok(t, [query |-> t.arg.query,
                            total_cases |-> Len(r.value),
                            test_cases |-> r.value])]
    /\ UNCHANGED <<uploaded, exists, entries, backlog, chunkVars, unitVars>>

(***************************************************************************)
(* generate_selenium_script (main.py) and ScriptGenerator.generate_script  *)
(***************************************************************************)
\* script_generator.py lines 23-41 and 141-156, main.py lines 303-328.
ScriptAnswer(s) ==
    /\ tasks[s].op = "script" /\ tasks[s].pc = "await"
    /\ \E llm \in ScriptAnswers :
         LET arg == tasks[s].arg
             selectors == ExtractSelectors(arg.html_content)
             r == ScriptWithLLM(llm, arg.test_case, arg.browser)
             result == [script |-> r.value,
                        selectors_used |->
                            ExtractUsedSelectors(r.value, selectors),
                        explanation |->
                            GenerateExplanation(arg.test_case, r.value)]
             t == [tasks[s] EXCEPT !.llm = llm, !.result = result]
         IN  tasks' = [tasks EXCEPT ![s] =
                IF r.exc # "" THEN ServerError(t, r.exc)
                ELSE Ok(t, [test_id |-> arg.test_case.test_id,
                            script |-> result.script,
                            selectors_used |-> <<>>,
                            explanation |-> result.explanation])]
    /\ UNCHANGED <<uploaded, exists, entries, backlog, chunkVars, unitVars>>

Next ==
    \/ Upload
    \/ \E op \in Ops : Arrive(op)
    \/ \E s \in Slots, op \in Ops : Dispatch(s, op)
    \/ \E s \in Slots : Respond(s)
    \/ \E s \in Slots : BuildParse(s)
    \/ \E s \in Slots : BuildAdd(s)
    \/ \E s \in Slots : ClearUnlink(s)
    \/ \E s \in Slots : ResetDelete(s)
    \/ \E s \in Slots : ResetCreate(s)
    \/ \E s \in Slots : TestCasesCheck(s)
    \/ \E s \in Slots : Retrieve(s)
    \/ \E s \in Slots : InvokeGenerator(s)
    \/ \E s \in Slots : TestCasesAnswer(s)
    \/ \E s \in Slots : ScriptAnswer(s)

Spec == ServiceInit /\ [][Next]_vars

(***************************************************************************)
(* chunk_text(text, chunk_size, overlap), one pass of its loop per step.   *)
(* text, chunk_size and overlap are the arguments; start and chunks are    *)
(* the locals.  visited is a history variable: the values start has had at *)
(* the head of the loop.  A pass is a function of start alone, so a run    *)
(* that comes back to a visited value repeats forever; the model does not  *)
(* follow it further.                                                      *)
(***************************************************************************)
ChunkInit ==
    /\ text \in Texts
    /\ chunk_size \in 2..MaxChunkSize
    /\ overlap \in 0..chunk_size
    /\ start = 0
    /\ chunks = <<>>
    /\ visited = {}
    /\ ct_pc = "call"
    /\ uploaded = {}
    /\ exists = TRUE
    /\ entries = NoEntries
    /\ tasks = [s \in Slots |-> IdleTask]
    /\ backlog = <<>>
    /\ call = <<>>
    /\ ret = <<>>
    /\ call_pc = "none"

\* Lines 16-20: the short-text return, or entry into the scan loop.
ChunkEnter ==
    /\ ct_pc = "call"
    /\ IF Len(text) <= chunk_size
       THEN /\ chunks' = <<text>>
            /\ ct_pc' = "done"
       ELSE /\ chunks' = <<>>
            /\ ct_pc' = "loop"
    /\ start' = 0
    /\ UNCHANGED <<text, chunk_size, overlap, visited, svcVars, unitVars>>

\* Lines 22-38: one pass of the while loop.
ChunkIter ==
    /\ ct_pc = "loop"
    /\ start < Len(text)
    /\ start \notin visited
    /\ LET end == WindowEnd(text, chunk_size, start)
           chunk == Strip(Slice(text, start, end))
       IN  /\ chunks' = IF chunk # <<>> THEN Append(chunks, chunk) ELSE chunks
           /\ start' = end - overlap
    /\ visited' = visited \cup {start}
    /\ UNCHANGED <<text, chunk_size, overlap, ct_pc, svcVars, unitVars>>

\* Lines 22 and 40: the loop condition fails and the chunks are returned.
ChunkReturn ==
    /\ ct_pc = "loop"
    /\ start >= Len(text)
    /\ ct_pc' = "done"
    /\ UNCHANGED <<text, chunk_size, overlap, start, chunks, visited, svcVars, unitVars>>

ChunkNext == ChunkEnter \/ ChunkIter \/ ChunkReturn

ChunkSpec == ChunkInit /\ [][ChunkNext]_vars

\* C1: for len(text) > chunk_size and 0 <= overlap < chunk_size, chunk_text
\* terminates: no pass of the scan loop begins at a start position from which
\* an earlier pass already began (a run that does repeats forever).
C1_Terminates ==
    (Len(text) > chunk_size /\ overlap < chunk_size /\ ct_pc = "loop")
        => start \notin visited

(***************************************************************************)
(* Properties of the service.                                              *)
(***************************************************************************)
\* The handlers of one endpoint that have finished and not yet responded.
Finished(op) == {s \in Slots : tasks[s].op = op /\ tasks[s].pc = "done"}

\* The step in which handler s passes from position from to position to.
Step(s, from, to) == tasks[s].pc = from /\ tasks'[s].pc = to

\* C2: ids assigned by successive builds without a reset between them are
\* unique: when a build has finished, no id it assigned to one of its chunks
\* is held by the collection for a different chunk.
C2_IdsUnique ==
    \A s \in Finished("build") :
        \A j \in 1..Len(tasks[s].ids) :
            tasks[s].ids[j] \in DOMAIN entries =>
                entries[tasks[s].ids[j]] =
                    [document |-> tasks[s].all_chunks[j].chunk,
                     metadata |-> tasks[s].all_chunks[j].metadata]

\* The nine fields of a test case record.
TestCaseFields == {"test_id", "feature", "test_scenario", "test_type",
                   "preconditions", "test_steps", "expected_result",
                   "grounded_in", "priority"}

\* C3: when the generation call fails and at least one case was requested,
\* the caller still receives test cases: at least one and at most the number
\* requested, each with all nine fields and a non-empty grounded_in list.
C3_FallbackOnFailure ==
    \A s \in Finished("testcases") :
        (/\ tasks[s].llm_calls > 0
         /\ tasks[s].llm.kind = "raise"
         /\ tasks[s].arg.num_cases >= 1) =>
            /\ tasks[s].resp.status = 200
            /\ tasks[s].resp.body.test_cases = tasks[s].result
            /\ Len(tasks[s].result) >= 1
            /\ Len(tasks[s].result) <= tasks[s].arg.num_cases
            /\ \A j \in 1..Len(tasks[s].result) :
                 /\ DOMAIN tasks[s].result[j] = TestCaseFields
                 /\ tasks[s].result[j].grounded_in.t = "list"
                 /\ tasks[s].result[j].grounded_in.v # <<>>

\* The generation call failed for a request of MaxNumCases cases over a
\* context without any feature keyword, and the request was answered.
C3_Witness ==
    \E s \in Finished("testcases") :
        /\ tasks[s].llm_calls > 0
        /\ tasks[s].llm.kind = "raise"
        /\ tasks[s].arg.num_cases = MaxNumCases
        /\ MatchedFeatures(BuildContextString(tasks[s].docs)) = <<>>
        /\ tasks[s].resp.status = 200

\* C4: no failure of the generation call or of the parsing of its answer
\* leaves the generator: once the answer is in (a raise, an answer without
\* content, text that does not parse, entries of any type, any requested
\* count), generate_test_cases returns a list of records and generate_script
\* returns a script record with all three fields.
C4_FailuresAbsorbed ==
    /\ \A s \in Finished("testcases") :
         tasks[s].llm_calls > 0 =>
            /\ tasks[s].resp.status = 200
            /\ \A j \in 1..Len(tasks[s].result) :
                 DOMAIN tasks[s].result[j] = TestCaseFields
    /\ \A s \in Finished("script") :
         tasks[s].llm_calls > 0 =>
            /\ tasks[s].resp.status = 200
            /\ DOMAIN tasks[s].result =
                 {"script", "selectors_used", "explanation"}
            /\ tasks[s].result.script # <<>>

\* The answer was an array holding an entry that is not a mapping, which
\* makes validation raise, and the request was answered all the same.
C4_Witness ==
    \E s \in Finished("testcases") :
        /\ tasks[s].llm_calls > 0
        /\ tasks[s].llm.kind = "text"
        /\ tasks[s].llm.body.t = "list"
        /\ \E j \in 1..Len(tasks[s].llm.body.v) :
             tasks[s].llm.body.v[j].t # "map"
        /\ tasks[s].arg.num_cases = MaxNumCases
        /\ tasks[s].resp.status = 200

\* C5: a retrieval that raises ends the request with that error: no fallback
\* result is produced and the generation service is not called.
C5_RetrievalErrorPropagates ==
    \A s \in Slots :
        tasks[s].retrieval = "raised" =>
            /\ tasks[s].pc = "done"
            /\ tasks[s].resp.status = 500
            /\ tasks[s].resp.error \in {"StorageUnavailable",
                                        "collection does not exist"}
            /\ tasks[s].resp.body = <<>>
            /\ tasks[s].result = <<>>
            /\ tasks[s].llm_calls = 0

\* The retrieval of a test case request over a populated collection raised.
C5_Witness ==
    \E s \in Finished("testcases") :
        /\ tasks[s].retrieval = "raised"
        /\ IsInitialized(entries)

\* The positions at which a handler is inside reset or inside the add of a
\* build.
WritePcs == {"delete", "create", "add"}

C7_BuildAddsN ==
    [][\A s \in Slots :
          Step(s, "add", "done") =>
             /\ tasks'[s].resp.status = 200
             /\ tasks'[s].resp.body.total_chunks = Len(tasks'[s].all_chunks)
             /\ GetDocumentCount(entries') =
                   GetDocumentCount(entries) + Len(tasks'[s].all_chunks)]_vars

\* C8: reset completes without error from every state, populated or empty;
\* after it the collection exists, its count is 0 and is_initialized is
\* false, and a build that starts from that state holds exactly its own
\* chunks.
C8_ResetEmpties ==
    [][\A s \in Slots :
          /\ tasks[s].pc = "delete" => tasks'[s].pc \in {"delete", "create"}
          /\ tasks[s].pc = "create" => tasks'[s].pc \in {"create", "done"}
          /\ Step(s, "create", "done") =>
                /\ tasks'[s].resp.status = 200
                /\ exists'
                /\ GetDocumentCount(entries') = 0
                /\ ~IsInitialized(entries')
          /\ (Step(s, "add", "done") /\ ~IsInitialized(entries)) =>
                /\ tasks'[s].resp.status = 200
                /\ GetDocumentCount(entries') = Len(tasks'[s].all_chunks)]_vars

\* A reset has completed and left an existing, empty collection.
C8_Witness ==
    \E s \in Finished("clear") :
        /\ tasks[s].resp.status = 200
        /\ exists
        /\ GetDocumentCount(entries) = 0

\* A record whose enumerated fields hold allowed values, whose text fields
\* are strings and whose list fields are lists.
WellTyped(rec) ==
    /\ rec.test_type \in {Str("positive"), Str("negative"), Str("edge")}
    /\ rec.priority \in {Str("high"), Str("medium"), Str("low")}
    /\ \A f \in {"test_id", "feature", "test_scenario", "test_type",
                 "preconditions", "expected_result", "priority"} :
         rec[f].t = "str"
    /\ rec.test_steps.t = "list"
    /\ rec.grounded_in.t = "list"

\* C9: every record returned for a test case request is well-typed.
C9_RecordsWellTyped ==
    \A s \in Finished("testcases") :
        \A j \in 1..Len(tasks[s].result) : WellTyped(tasks[s].result[j])

\* The normalization of one parsed entry, an entry that is not a mapping
\* counting as a mapping without keys.
Normalized(entry, index) ==
    ValidateTestCase(IF entry.t = "map" THEN entry.v ELSE EmptyEntry.v, index)

\* C10: validation never rejects: when the answer parses and the requested
\* count is not negative, the result has exactly min(requested count, number
\* of parsed entries) records, the i-th being the normalization of the i-th
\* parsed entry, whether or not that entry is a mapping.
C10_ValidationNeverRejects ==
    \A s \in Finished("testcases") :
        (/\ tasks[s].llm_calls > 0
         /\ tasks[s].llm.kind = "text"
         /\ Parses(CleanPre(tasks[s].llm.pre, JsonTag), tasks[s].llm.body,
                   CleanPost(tasks[s].llm.post, JsonTag))
         /\ tasks[s].arg.num_cases >= 0) =>
            LET parsed == AsList(tasks[s].llm.body)
                n == Min(tasks[s].arg.num_cases, Len(parsed))
            IN  /\ tasks[s].resp.status = 200
                /\ tasks[s].result =
                      [j \in 1..n |-> Normalized(parsed[j], j)]

(***************************************************************************)
(* Single calls.  The states in which the service and the chunker are at   *)
(* rest, for the specifications that run one function on its own.          *)
(***************************************************************************)
ServiceIdle ==
    /\ uploaded = {}
    /\ exists = TRUE
    /\ entries = NoEntries
    /\ tasks = [s \in Slots |-> IdleTask]
    /\ backlog = <<>>

ChunkerIdle ==
    /\ text = <<>>
    /\ chunk_size = 2
    /\ overlap = 0
    /\ start = 0
    /\ chunks = <<>>
    /\ visited = {}
    /\ ct_pc = "done"

(***************************************************************************)
(* _validate_test_case applied to a parsed mapping, and then to its own    *)
(* result.                                                                 *)
(***************************************************************************)
MaxIndex == 2

\* The values a key of a parsed mapping may hold.
JsonValues == {Str("x"), Num(1), Null, List(<<>>), List(<<Str("s")>>)}

\* The keys that vary in the mappings of this specification.
VaryingKeys == {"test_id", "test_type", "test_steps", "grounded_in"}

ParsedMappings == UNION {[K -> JsonValues] : K \in SUBSET VaryingKeys}

ValidateInit ==
    /\ call \in [tc : ParsedMappings, i : 1..MaxIndex, j : 1..MaxIndex]
    /\ ret = <<>>
    /\ call_pc = "call"
    /\ ServiceIdle
    /\ ChunkerIdle

\* validated_tc = self._validate_test_case(tc, i)
ValidateOnce ==
    /\ call_pc = "call"
    /\ ret' = <<ValidateTestCase(call.tc, call.i)>>
    /\ call_pc' = "validated"
    /\ UNCHANGED <<call, chunkVars, svcVars>>

\* self._validate_test_case(validated_tc, j)
ValidateAgain ==
    /\ call_pc = "validated"
    /\ ret' = Append(ret, ValidateTestCase(ret[1], call.j))
    /\ call_pc' = "done"
    /\ UNCHANGED <<call, chunkVars, svcVars>>

ValidateNext == ValidateOnce \/ ValidateAgain

ValidateSpec == ValidateInit /\ [][ValidateNext]_vars

\* C11: validation is idempotent: validating the record that validation
\* returned for a parsed mapping, under any index, returns that record.
C11_ValidateIdempotent ==
    call_pc = "done" => ret[2] = ret[1]

\* A mapping without test_id and with test_steps that is not a list has been
\* validated under one index and its result under another.
C11_Witness ==
    /\ call_pc = "done"
    /\ call.i # call.j
    /\ "test_id" \notin DOMAIN call.tc
    /\ "test_steps" \in DOMAIN call.tc /\ call.tc.test_steps.t # "list"

(***************************************************************************)
(* Properties of chunk_text.                                               *)
(***************************************************************************)
\* C12: for len(text) <= chunk_size, the empty text and text with white
\* space around it included, chunk_text returns exactly one chunk, the text
\* without its leading and trailing white space.
C12_ShortTextTrimmed ==
    (ct_pc = "done" /\ Len(text) <= chunk_size) => chunks = <<Strip(text)>>

\* The positions (1-based) of the text that lie in the window of the pass
\* begun at start position st.
WindowPositions(st) ==
    (SliceIndex(Len(text), st) + 1)
        ..SliceIndex(Len(text), WindowEnd(text, chunk_size, st))

\* C13: for len(text) > chunk_size and overlap < chunk_size, every chunk
\* returned is non-empty and the windows leave no gap: every position of the
\* text lies in a window, and every character that is not white space lies
\* in a window whose trimmed text is one of the chunks.
C13_NoGaps ==
    (ct_pc = "done" /\ Len(text) > chunk_size /\ overlap < chunk_size) =>
        /\ \A k \in 1..Len(chunks) : chunks[k] # <<>>
        /\ \A p \in 1..Len(text) : \E st \in visited : p \in WindowPositions(st)
        /\ \A p \in 1..Len(text) :
             text[p] \notin Whitespace =>
                \E st \in visited, k \in 1..Len(chunks) :
                    /\ p \in WindowPositions(st)
                    /\ chunks[k] = Strip(Slice(text, st,
                                           WindowEnd(text, chunk_size, st)))

\* C14: a configuration with overlap >= chunk_size is rejected before any
\* chunking: the scan loop is never entered with it.
C14_OverlapRejected ==
    overlap >= chunk_size => ct_pc # "loop"

\* The keys of a selector table, as a set.
KeysOf(selectors) == {selectors[j].key : j \in 1..Len(selectors)}

\* C15: the selectors_used that generate_script returns are exactly the keys
\* of the selector table whose literal string occurs in the returned script:
\* a key is reported if and only if its own text is a substring of the
\* script.
C15_SelectorsUsedLiteral ==
    \A s \in Finished("script") :
        tasks[s].llm_calls > 0 =>
            LET selectors == ExtractSelectors(tasks[s].arg.html_content)
                reported == {tasks[s].result.selectors_used[j] :
                                j \in 1..Len(tasks[s].result.selectors_used)}
            IN  \A key \in KeysOf(selectors) :
                    key \in reported <=> Occurs(key, tasks[s].result.script)

(***************************************************************************)
(* ScriptGenerator._extract_selectors called on its own: the loop of lines *)
(* 49-70 visits one element per step.  call holds the markup, ret the      *)
(* table built so far and the number of elements visited.                  *)
(***************************************************************************)
MaxElements == 3

\* Visible texts of 31 characters that agree on the first 30.
LongText == [j \in 1..31 |-> "x"]

LongTextOther == [j \in 1..31 |-> IF j = 31 THEN "y" ELSE "x"]

Element(tag, id, name, txt) ==
    [tag |-> tag, id |-> id, name |-> name, text |-> txt]

\* Elements that soup.find_all(['input', 'button', 'select', 'textarea',
\* 'a']) can return; text is get_text(strip=True).
SampleElements ==
    {Element("input", "email", "", <<>>),
     Element("input", "", "pw", <<>>),
     Element("input", "", "", <<>>),
     Element("button", "", "pw", <<"Send">>),
     Element("button", "", "", <<"Submit">>),
     Element("button", "", "", <<>>),
     Element("button", "", "", LongText),
     Element("button", "", "", LongTextOther),
     Element("a", "", "", <<"Submit">>),
     Element("a", "go", "nav", <<"Go">>)}

Markups == UNION {[1..n -> SampleElements] : n \in 0..MaxElements}

\* Lines 51-60: element_info; the text of an input is None.
ElementInfo(e) == [e EXCEPT !.text = IF e.tag = "input" THEN <<>> ELSE @]

SelectorInit ==
    /\ call \in [html_content : Markups]
    /\ ret = [selectors |-> <<>>, count |-> 0]
    /\ call_pc = "for"
    /\ ServiceIdle
    /\ ChunkerIdle

\* Lines 49-70: one iteration of the for loop.
ExtractVisit ==
    /\ call_pc = "for"
    /\ ret.count < Len(call.html_content)
    /\ LET e == call.html_content[ret.count + 1]
       IN  ret' = [selectors |->
                       IF SelectorKey(e) = <<>> THEN ret.selectors
                       ELSE DictSet(ret.selectors, SelectorKey(e),
                                    ElementInfo(e)),
                   count |-> ret.count + 1]
    /\ UNCHANGED <<call, call_pc, chunkVars, svcVars>>

\* Line 72: return selectors
ExtractReturn ==
    /\ call_pc = "for"
    /\ ret.count = Len(call.html_content)
    /\ call_pc' = "done"
    /\ UNCHANGED <<call, ret, chunkVars, svcVars>>

SelectorNext == ExtractVisit \/ ExtractReturn

SelectorSpec == SelectorInit /\ [][SelectorNext]_vars

\* The elements of the markup, by position in the document.
Positions == 1..Len(call.html_content)

\* The key that the priority id, name, visible text assigns to an element;
\* an input has no visible text.
PriorityKey(e) ==
    IF e.id # "" THEN <<"#", e.id>>
    ELSE IF e.name # "" THEN <<"[name='", e.name, "']">>
    ELSE <<e.tag, ":contains('">> \o Slice(ElementInfo(e).text, 0, 30)
             \o <<"')">>

\* An element with an id, a name or, not being an input, some visible text.
Addressable(e) == e.id # "" \/ e.name # "" \/ ElementInfo(e).text # <<>>

\* The table lists its keys once each, in the document order of the first
\* element of P that takes each key.
InDocumentOrder(P) ==
    LET d == ret.selectors
        first(key) == CHOOSE k \in P :
                          /\ PriorityKey(call.html_content[k]) = key
                          /\ \A l \in P :
                                PriorityKey(call.html_content[l]) = key
                                    => k <= l
    IN  \A a, b \in 1..Len(d) : a < b => first(d[a].key) < first(d[b].key)

LoginMarkupKeys ==
    call.html_content = <<Element("input", "email", "", <<>>),
                          Element("button", "", "", <<"Submit">>)>>
        => [j \in 1..Len(ret.selectors) |-> ret.selectors[j].key]
              = <<(<<"#", "email">>),
                  (<<"button", ":contains('", "Submit", "')">>)>>

\* C16 as stated: extraction gives every interactive element the key chosen
\* by the priority #id, [name='name'], tag:contains('first 30 characters of
\* the visible text'), in document order; input#email and a Submit button
\* yield exactly #email and button:contains('Submit').
C16_EveryElementKeyed ==
    call_pc = "done" =>
        /\ KeysOf(ret.selectors)
              = {PriorityKey(call.html_content[k]) : k \in Positions}
        /\ InDocumentOrder(Positions)
        /\ LoginMarkupKeys

\* C16 amended: extraction gives every interactive element that has an id, a
\* name or (not being an input) non-empty visible text the key chosen by
\* that priority, in document order, and gives the other elements no key.
C16_KeyByPriority ==
    call_pc = "done" =>
        LET P == {k \in Positions : Addressable(call.html_content[k])}
        IN  /\ KeysOf(ret.selectors)
                  = {PriorityKey(call.html_content[k]) : k \in P}
            /\ InDocumentOrder(P)
            /\ LoginMarkupKeys

C16_Witness ==
    /\ call_pc = "done"
    /\ call.html_content = <<Element("a", "go", "nav", <<"Go">>),
                             Element("button", "", "", LongText),
                             Element("input", "", "", <<>>)>>
    /\ Len(ret.selectors) = 2

\* An element with no id and no name.
Anonymous(e) == e.id = "" /\ e.name = ""

\* Two elements whose visible text agrees on its first 30 characters.
SameTextPrefix(e, f) ==
    Slice(ElementInfo(e).text, 0, 30) = Slice(ElementInfo(f).text, 0, 30)

\* Elements k and l leave exactly one entry in the table, and it describes
\* the last element of the document that is in relation R with them.
SingleEntryLastWins(k, l, R(_, _)) ==
    LET h == call.html_content
        d == ret.selectors
        js == {j \in 1..Len(d) :
                  d[j].key \in {PriorityKey(h[k]), PriorityKey(h[l])}}
        last == CHOOSE m \in Positions :
                    /\ R(h[k], h[m])
                    /\ \A n \in Positions : R(h[k], h[n]) => n <= m
    IN  /\ Cardinality(js) = 1
        /\ \A j \in js : d[j].info = ElementInfo(h[last])

AgreeOnText(e, f) == Anonymous(e) /\ Anonymous(f) /\ SameTextPrefix(e, f)

AgreeOnTagAndText(e, f) ==
    /\ AgreeOnText(e, f)
    /\ e.tag = f.tag
    /\ e.tag # "input"
    /\ ElementInfo(e).text # <<>>

\* C17 as stated: any two interactive elements with no id and no name whose
\* visible text agrees on its first 30 characters produce a single key of
\* the selector table, and its entry describes the later element.
C17_SameTextOneKey ==
    call_pc = "done" =>
        \A k, l \in Positions :
            (k < l /\ AgreeOnText(call.html_content[k], call.html_content[l]))
                => SingleEntryLastWins(k, l, AgreeOnText)

\* C17 amended: any two interactive elements of the same tag, other than
\* input, with no id and no name, whose non-empty visible text agrees on its
\* first 30 characters produce a single key of the selector table, and its
\* entry describes the later element.
C17_SameTagTextOneKey ==
    call_pc = "done" =>
        \A k, l \in Positions :
            (k < l /\ AgreeOnTagAndText(call.html_content[k],
                                        call.html_content[l]))
                => SingleEntryLastWins(k, l, AgreeOnTagAndText)

C17_Witness ==
    /\ call_pc = "done"
    /\ call.html_content = <<Element("button", "", "", LongText),
                             Element("button", "", "", LongTextOther),
                             Element("a", "", "", <<"Submit">>)>>
    /\ Len(ret.selectors) = 2
    /\ ret.selectors[1].info.text = LongTextOther

(***************************************************************************)
(* _create_fallback_test_cases called twice with the same query, context   *)
(* and num_cases, by one process or by two.  ret collects, for each call,  *)
(* the features list of line 149 and the records returned.                 *)
(***************************************************************************)
MaxContextTokens == 3

MaxRequested == 4

FallbackContexts ==
    UNION {[1..n -> {"Input", "form", "button", "cart checkout", "the"}] :
              n \in 0..MaxContextTokens}

FallbackInit ==
    /\ call \in [context : FallbackContexts, num_cases : 1..MaxRequested,
                 same_process : BOOLEAN]
    /\ ret = <<>>
    /\ call_pc = "first"
    /\ ServiceIdle
    /\ ChunkerIdle

\* Lines 145-171, first call: the order of list(set(features)) is the one
\* that the hash seed of the process gives.
FallbackFirst ==
    /\ call_pc = "first"
    /\ \E features \in SetOrders(MatchedFeatures(call.context)) :
         ret' = <<[features |-> features,
                   records |-> CreateFallbackTestCases(features,
                                                       call.num_cases)]>>
    /\ call_pc' = "second"
    /\ UNCHANGED <<call, chunkVars, svcVars>>

\* Second call: the same process hashes the strings as before; another
\* process has its own seed.
FallbackSecond ==
    /\ call_pc = "second"
    /\ \E features \in SetOrders(MatchedFeatures(call.context)) :
         /\ call.same_process => features = ret[1].features
         /\ ret' = Append(ret,
                      [features |-> features,
                       records |-> CreateFallbackTestCases(features,
                                                           call.num_cases)])
    /\ call_pc' = "done"
    /\ UNCHANGED <<call, chunkVars, svcVars>>

FallbackNext == FallbackFirst \/ FallbackSecond

FallbackSpec == FallbackInit /\ [][FallbackNext]_vars

\* C18: with m matched keywords the fallback produces
\* min(requested_count, max(m, 3)) records, and when m > 0 the record at
\* 0-based position i takes the matched feature at position i mod m.
C18_CountAndCycle ==
    \A r \in 1..Len(ret) :
        call_pc \in {"second", "done"} =>
            LET m == Len(ret[r].features)
                records == ret[r].records
            IN  /\ Len(records) = Min(call.num_cases, Max(m, 3))
                /\ m > 0 =>
                     \A j \in 1..Len(records) :
                        records[j].feature
                            = Str(ret[r].features[((j - 1) % m) + 1])

\* C19: two fallback runs with the same query, context and requested_count
\* return identical record lists, in the same or in different processes.
C19_FallbackDeterministic ==
    call_pc = "done" => ret[2].records = ret[1].records

(***************************************************************************)
(* _generate_with_llm of either generator around its one call of           *)
(* client.chat.completions.create.  The client is built as Groq(api_key)   *)
(* and the call passes model, messages, temperature and max_tokens: no     *)
(* timeout is given in either place, and nothing around the call bounds    *)
(* the wait.  ret.waited counts the time for which the call has been       *)
(* pending; call_pc is the state of the invocation.                        *)
(***************************************************************************)
MaxWait == 3

GenerationCalls ==
    [op : {"testcases", "script"}, num_cases : 1..MaxNumCases,
     test_case : {LoginCase, NoStepsCase},
     features : SetOrders(<<"Input", "Form">>)]

GenerationInit ==
    /\ call \in GenerationCalls
    /\ ret = [waited |-> 0, value |-> <<>>]
    /\ call_pc = "INVOKE_GENERATOR"
    /\ ServiceIdle
    /\ ChunkerIdle

\* test_case_generator.py lines 87-95, script_generator.py lines 131-139:
\* the call has not returned yet.
GenerationPending ==
    /\ call_pc = "INVOKE_GENERATOR"
    /\ ret.waited < MaxWait
    /\ ret' = [ret EXCEPT !.waited = @ + 1]
    /\ UNCHANGED <<call, call_pc, chunkVars, svcVars>>

\* test_case_generator.py lines 97-129, script_generator.py lines 141-156:
\* the call returns or raises, and the generator returns its result or its
\* fallback.
GenerationAnswer ==
    /\ call_pc = "INVOKE_GENERATOR"
    /\ \/ /\ call.op = "testcases"
          /\ \E llm \in TestCaseAnswers :
               /\ ret' = [ret EXCEPT !.value =
                            GenerateWithLLM(llm, call.features,
                                            call.num_cases).value]
               /\ call_pc' = IF TryGenerateTestCases(llm, call.num_cases).exc
                                   = ""
                             THEN "SUCCESS" ELSE "FALLBACK"
       \/ /\ call.op = "script"
          /\ \E llm \in ScriptAnswers :
               /\ ret' = [ret EXCEPT !.value =
                            ScriptWithLLM(llm, call.test_case,
                                          "chrome").value]
               /\ call_pc' = IF TryGenerateScript(llm, "chrome").exc = ""
                             THEN "SUCCESS" ELSE "FALLBACK"
    /\ UNCHANGED <<call, chunkVars, svcVars>>

GenerationNext == GenerationPending \/ GenerationAnswer

GenerationSpec == GenerationInit /\ [][GenerationNext]_vars

MaxResults == 3

\* Line 21 with i counted from 0.
ContextPartZeroBased(i, result) ==
    <<"[Source ", i - 1, ": ",
      IF "source" \in DOMAIN result.metadata THEN result.metadata.source
      ELSE "unknown",
      "]", "\n">> \o result.content \o <<"\n">>

\* Lines 19-21: f"[Source {i}: {source}]\n{content}\n"
ContextPart(i, result) ==
    <<"[Source ", i, ": ",
      IF "source" \in DOMAIN result.metadata THEN result.metadata.source
      ELSE "unknown",
      "]", "\n">> \o result.content \o <<"\n">>

FormatInit ==
    /\ call \in [results :
                  UNION {[1..n ->
                            [content : {<<"a">>, <<"b", "\n", "c">>},
                             metadata : {[source |-> "guide.md"],
                                         [source |-> "notes.txt"],
                                         [type |-> "md"]}]] :
                         n \in 0..MaxResults}]
    /\ ret = [context_parts |-> <<>>, value |-> <<>>]
    /\ call_pc = "for"
    /\ ServiceIdle
    /\ ChunkerIdle

\* Lines 18-21: one iteration of the loop.
FormatVisit ==
    /\ call_pc = "for"
    /\ Len(ret.context_parts) < Len(call.results)
    /\ LET i == Len(ret.context_parts) + 1
       IN  ret' = [ret EXCEPT !.context_parts =
                      Append(@, ContextPart(i, call.results[i]))]
    /\ UNCHANGED <<call, call_pc, chunkVars, svcVars>>

\* Line 23: "\n".join(context_parts)
FormatReturn ==
    /\ call_pc = "for"
    /\ Len(ret.context_parts) = Len(call.results)
    /\ LET RECURSIVE join(_)
           join(parts) ==
               IF parts = <<>> THEN <<>>
               ELSE IF Len(parts) = 1 THEN parts[1]
               ELSE parts[1] \o <<"\n">> \o join(Tail(parts))
       IN  ret' = [ret EXCEPT !.value = join(ret.context_parts)]
    /\ call_pc' = "done"
    /\ UNCHANGED <<call, chunkVars, svcVars>>

FormatNext == FormatVisit \/ FormatReturn

FormatSpec == FormatInit /\ [][FormatNext]_vars

\* The blocks of results k, k+1, ... as the claim describes them: a label
\* line with the number and the source (or the placeholder), the content,
\* and a blank line before the next block.
RECURSIVE LabeledBlocks(_, _)
LabeledBlocks(results, k) ==
    IF k > Len(results) THEN <<>>
    ELSE LET r == results[k]
             source == IF "source" \in DOMAIN r.metadata
                       THEN r.metadata.source ELSE "unknown"
         IN  <<"[Source ", k, ": ", source, "]", "\n">> \o r.content
             \o (IF k < Len(results) THEN <<"\n", "\n">> ELSE <<>>)
             \o LabeledBlocks(results, k + 1)

\* C21: format_context renders the results in their given order as one
\* labeled block per result, numbered 1, 2, ... and separated by blank
\* lines, with the source or a placeholder; for an empty list it returns the
\* empty string.
C21_FormatContext ==
    call_pc = "done" =>
        /\ call.results = <<>> => ret.value = <<>>
        /\ call.results # <<>> =>
              ret.value = LabeledBlocks(call.results, 1) \o <<"\n">>

C21_Witness ==
    /\ call_pc = "done"
    /\ Len(call.results) = MaxResults
    /\ "source" \notin DOMAIN call.results[2].metadata
    /\ call.results[1].metadata # call.results[3].metadata

\* The positions of a token in a script.
At(script, token) == {j \in 1..Len(script) : script[j] = token}

\* C22: a fallback script holds exactly one placeholder step per declared
\* test step, numbered from 1 in the declared order, after the setup and
\* before a final assertion stub that is followed by the teardown; it is
\* never empty, also for a test case without steps.
C22_FallbackScriptSteps ==
    (call_pc = "FALLBACK" /\ call.op = "script") =>
        LET script == ret.value
            steps == call.test_case.test_steps
            label(i, j) ==
                /\ j + 3 <= Len(script)
                /\ SubSeq(script, j, j + 3)
                      = <<"# Step ", Digits[i], ": ", steps[i]>>
                /\ SubSeq(script, j + 4, j + 6)
                      = <<"\n", "# TODO: Implement step", "\n">>
        IN  /\ script # <<>>
            /\ Cardinality(At(script, "# Step ")) = Len(steps)
            /\ Cardinality(At(script, "# TODO: Implement step")) = Len(steps)
            /\ \E f \in [1..Len(steps) -> 1..Len(script)] :
                 /\ \A i \in 1..Len(steps) : label(i, f[i])
                 /\ \A i \in 1..(Len(steps) - 1) : f[i] < f[i + 1]
                 /\ \E su \in At(script, "def setup_method(self):"),
                       as \in At(script, "# Assertion"),
                       td \in At(script, "def teardown_method(self):") :
                      /\ su < as /\ as < td
                      /\ \A i \in 1..Len(steps) : su < f[i] /\ f[i] < as

C22_Witness ==
    /\ call_pc = "FALLBACK"
    /\ call.op = "script"
    /\ call.test_case = LoginCase
    /\ Cardinality(At(ret.value, "# Step ")) = 2

\* C23: on every path the script that generate_script returns contains the
\* automation-library marker; when the generator's output lacks it, the
\* result is the required import lines followed by that output unchanged,
\* and neither the generator nor the fallback is invoked again.
C23_MarkerOnEveryPath ==
    \A s \in Finished("script") :
        tasks[s].llm_calls > 0 =>
            LET llm == tasks[s].llm
                script == tasks[s].result.script
                output == CleanPre(llm.pre, PythonTag) \o llm.body
                          \o CleanPost(llm.post, PythonTag)
            IN  /\ ContainsSelenium(script)
                /\ (llm.kind = "text" /\ ~ContainsSelenium(output)) =>
                      /\ tasks[s].llm_calls = 1
                      /\ Len(script) > Len(output)
                      /\ SubSeq(script, Len(script) - Len(output) + 1,
                                Len(script)) = output
                      /\ script[1] = "from selenium import webdriver"
                      /\ At(script, "Selenium Test Script") = {}

C23_Witness ==
    \E s \in Finished("script") :
        /\ tasks[s].llm_calls = 1
        /\ tasks[s].llm.kind = "text"
        /\ tasks[s].llm.pre # <<>>
        /\ ~ContainsSelenium(tasks[s].llm.body)
        /\ tasks[s].resp.status = 200

\* C24: in test-case mode, output enclosed in code-fence markers, with or
\* without a language tag, is parsed exactly as the same output without the
\* fence, and a bare JSON object is treated as a one-element list that
\* yields exactly one normalized record (when at least one is requested).
C24_FenceTransparent ==
    \A s \in Finished("testcases") :
        (tasks[s].llm_calls > 0 /\ tasks[s].llm.kind = "text") =>
            LET llm == tasks[s].llm
                n == tasks[s].arg.num_cases
                bare == TryGenerateTestCases(Text(<<>>, llm.body, <<>>), n)
            IN  bare.exc = "" =>
                    /\ tasks[s].result = bare.value
                    /\ (llm.body.t = "map" /\ n >= 1) =>
                          Len(tasks[s].result) = 1

\* The 0-based positions at which delimiter d lies wholly inside the window
\* of chunk_size characters that begins at start.
OccurrencesInWindow(d) ==
    {k \in Max(start, 0)..(Min(start + chunk_size, Len(text)) - Len(d)) :
        SubSeq(text, k + 1, k + Len(d)) = d}

\* The end that the claim gives the window beginning at start.
ClaimedWindowEnd ==
    LET found == {d \in 1..Len(Delimiters) :
                     OccurrencesInWindow(Delimiters[d]) # {}}
    IN  IF start + chunk_size < Len(text) /\ found # {}
        THEN LET d == CHOOSE x \in found : \A y \in found : x <= y
                 occ == OccurrencesInWindow(Delimiters[d])
                 last == CHOOSE k \in occ : \A h \in occ : h <= k
             IN  last + Len(Delimiters[d])
        ELSE start + chunk_size

\* C25: a window whose right edge is interior to the text ends immediately
\* after the last occurrence, inside the window, of the highest-priority
\* delimiter that occurs there, and keeps the full window when none occurs;
\* a window that reaches the end of the text is never shortened.  (A pass of
\* the loop leaves start = end - overlap.)
C25_WindowEndsAtDelimiter ==
    [][(ct_pc = "loop" /\ visited' # visited)
          => start' + overlap = ClaimedWindowEnd]_vars

\* The same for the passes that begin inside the text.
C25_FromNonNegativeStart ==
    [][(ct_pc = "loop" /\ visited' # visited /\ start >= 0)
          => start' + overlap = ClaimedWindowEnd]_vars

\* C26: in the test-case fallback the record at 0-based position i has type
\* negative exactly when i mod 3 = 1 and type positive otherwise, never
\* edge, and the records carry the consecutive ids TC-001, TC-002, ... in
\* order.
C26_FallbackTypesAndIds ==
    \A r \in 1..Len(ret) :
        call_pc \in {"second", "done"} =>
            \A j \in 1..Len(ret[r].records) :
                LET record == ret[r].records[j]
                IN  /\ record.test_type.v
                          = IF (j - 1) % 3 = 1 THEN <<"negative">>
                            ELSE <<"positive">>
                    /\ record.test_id.v
                          = <<"TC-00" \o Digits[j]>>

C26_Witness ==
    /\ call_pc = "done"
    /\ Len(ret[1].records) = MaxRequested
    /\ ret[1].records[4].test_type.v = <<"positive">>
    /\ ret[1].records[2].test_type.v = <<"negative">>

\* The order of the positions of a generation handler: the index check
\* (test cases only), the retrieval, the building of the prompt and the
\* call, the wait for the answer, and the end (SUCCESS, FALLBACK or an error
\* raised before the call).
GenerationOrder ==
    {<<"check", "retrieve">>, <<"check", "done">>, <<"retrieve", "invoke">>,
     <<"retrieve", "done">>, <<"invoke", "await">>, <<"await", "done">>,
     <<"done", "idle">>}

\* C27: a generator invocation passes through its states in order and ends
\* in exactly one of SUCCESS or FALLBACK: the retrieval happens once, before
\* the generation call; the call is made at most once per request; after
\* the answer step has taken SUCCESS or FALLBACK no further call is made.
C27_OneCallInOrder ==
    [][\A s \in Slots :
          tasks[s].op \in {"testcases", "script"} =>
              /\ tasks'[s].pc # tasks[s].pc
                    => <<tasks[s].pc, tasks'[s].pc>> \in GenerationOrder
              /\ tasks'[s].op # "idle" =>
                    /\ tasks'[s].llm_calls <= 1
                    /\ tasks'[s].llm_calls > tasks[s].llm_calls
                          => /\ tasks[s].retrieval = "ok"
                             /\ tasks[s].llm_calls = 0
                    /\ tasks[s].retrieval # "none"
                          => tasks'[s].retrieval = tasks[s].retrieval
                    /\ Step(s, "await", "done") =>
                          /\ tasks'[s].resp.status = 200
                          /\ tasks'[s].llm_calls = tasks[s].llm_calls]_vars

C27_Witness ==
    \E s \in Finished("testcases") :
        /\ tasks[s].llm_calls = 1
        /\ tasks[s].llm.kind = "raise"
        /\ tasks[s].retrieval = "ok"
        /\ tasks[s].resp.status = 200
        /\ tasks[s].result # <<>>

\* C28: the selectors_used list in the response of the script-generation
\* endpoint equals the selectors_used list that generate_script computed for
\* the same request.
C28_SelectorsPassedThrough ==
    \A s \in Finished("script") :
        (tasks[s].llm_calls > 0 /\ tasks[s].resp.status = 200) =>
            tasks[s].resp.body.selectors_used
                = tasks[s].result.selectors_used

\* C29: a test-case generation request handled while the index holds zero
\* entries is rejected with status 400 and performs neither a retrieval nor
\* a generation call, whatever builds and clears came before.
C29_EmptyIndexRejected ==
    [][\A s \in Slots :
          (tasks[s].op = "testcases" /\ tasks[s].pc = "check"
           /\ tasks'[s].pc # "check" /\ exists /\ ~IsInitialized(entries)) =>
              /\ tasks'[s].pc = "done"
              /\ tasks'[s].resp.status = 400
              /\ tasks'[s].retrieval = "none"
              /\ tasks'[s].llm_calls = 0]_vars

\* C30: when the generator's output parses as JSON, the result of
\* generate_test_cases holds only records derived from the parsed entries,
\* one for each of the first requested_count entries, and the fallback is
\* not entered; a parsed empty array yields an empty result list.
C30_ParsedOutputNoFallback ==
    \A s \in Finished("testcases") :
        (tasks[s].llm_calls > 0 /\ tasks[s].llm.kind = "text") =>
            LET llm == tasks[s].llm
                parsed == Parses(CleanPre(llm.pre, JsonTag), llm.body,
                                 CleanPost(llm.post, JsonTag))
                first == Slice(AsList(llm.body), 0, tasks[s].arg.num_cases)
            IN  parsed =>
                    /\ Len(tasks[s].result) = Len(first)
                    /\ \A j \in 1..Len(first) :
                          first[j].t = "map" =>
                              tasks[s].result[j]
                                  = ValidateTestCase(first[j].v, j)

====
